---- MODULE Spec2Model ----
(***************************************************************************)
(* Real-time news backend: the ingestion cycle (fetch all sources, dedup,  *)
(* persist, cache, broadcast), the scheduler's overlap flag, the admin     *)
(* operations and the durable store with its unique url index.             *)
(*                                                                         *)
(* Strings are sequences of one-character strings, so that trimming,       *)
(* concatenation, lower-casing and bigram similarity are computed as the   *)
(* code computes them.                                                     *)
(***************************************************************************)
EXTENDS Integers, Sequences, FiniteSets, TLC

\* ------------------------------------------------------------------ bounds
\* Cycles (fetchAllNews executions) started in one behaviour.
MaxCycles == 2
\* Feed entries that arrive in one cycle, over all feeds.
MaxBatch == 2
\* Firings of the 5-minute cron job in one behaviour.
MaxTicks == 2
\* Store or cache operations that fail, and rejections of fetchAllNews, in one
\* behaviour.
MaxFaults == 1
\* Items in the batch of one direct call of processAndDeduplicateNews.
MaxItems == 3
\* The largest limit, and the largest offset, of a query.
MaxLimit == 2
\* Firings of the daily clean-up job in one behaviour.
MaxSweeps == 2

\* ------------------------------------------------------- program constants
\* isValidNewsItem: title.length > 10, summary.length > 20.
TitleMinLen == 10
SummaryMinLen == 20
\* fetchRSSNews: feed.items.slice(0, 10).
FeedLimit == 10
\* cacheNews: lTrim('news:latest', 0, 99).
LatestTrimStop == 99
\* cleanupOldNews: Date.now() - 7 * 24 * 60 * 60 * 1000, in days.
RetentionDays == 7

\* ----------------------------------------------------------------- strings
Rep(ch, n) == [i \in 1..n |-> ch]

IsSpace(ch) == ch = " "

\* String.prototype.trim: leading and trailing white space removed.
RECURSIVE TrimLeft(_)
TrimLeft(s) ==
    IF s # <<>> /\ IsSpace(Head(s)) THEN TrimLeft(Tail(s)) ELSE s

RECURSIVE TrimRight(_)
TrimRight(s) ==
    IF s # <<>> /\ IsSpace(s[Len(s)]) THEN TrimRight(SubSeq(s, 1, Len(s) - 1)) ELSE s

Trim(s) == TrimRight(TrimLeft(s))

LowerChar(ch) ==
    CASE ch = "A" -> "a"
      [] ch = "X" -> "x"
      [] OTHER -> ch

\* String.prototype.toLowerCase.
ToLowerCase(s) == [i \in DOMAIN s |-> LowerChar(s[i])]

\* first.replace(/\s+/g, '')
StripSpaces(s) == SelectSeq(s, LAMBDA ch : ~IsSpace(ch))

\* The bigrams of s, in order: s.substring(i, i + 2) for i in 0..length-2.
Bigrams(s) == [i \in 1..(Len(s) - 1) |-> <<s[i], s[i + 1]>>]

\* firstBigrams: bigram -> number of occurrences in the first string.
BigramCounts(bg) ==
    [b \in {bg[i] : i \in DOMAIN bg} |-> Cardinality({i \in DOMAIN bg : bg[i] = b})]

\* The second loop of compareTwoStrings: each bigram of the second string that
\* still has a positive count consumes one and adds one to intersectionSize.
RECURSIVE IntersectionSize(_, _, _)
IntersectionSize(counts, bg2, i) ==
    IF i > Len(bg2) THEN 0
    ELSE IF bg2[i] \in DOMAIN counts /\ counts[bg2[i]] > 0
         THEN 1 + IntersectionSize([counts EXCEPT ![bg2[i]] = @ - 1], bg2, i + 1)
         ELSE IntersectionSize(counts, bg2, i + 1)

\* stringSimilarity.compareTwoStrings (Dice coefficient on bigrams) as the
\* fraction <<numerator, denominator>>.
CompareTwoStrings(a, b) ==
    LET first == StripSpaces(a)
        second == StripSpaces(b)
    IN  IF first = second THEN <<1, 1>>
        ELSE IF Len(first) < 2 \/ Len(second) < 2 THEN <<0, 1>>
        ELSE <<2 * IntersectionSize(BigramCounts(Bigrams(first)), Bigrams(second), 1),
               Len(first) + Len(second) - 2>>

SimilarTitlesFromThreshold(t1, t2) ==
    LET sim == CompareTwoStrings(ToLowerCase(t1), ToLowerCase(t2))
    IN  10 * sim[1] >= 8 * sim[2]

\* titleSimilarity > 0.8
SimilarTitles(t1, t2) ==
    LET sim == CompareTwoStrings(ToLowerCase(t1), ToLowerCase(t2))
    IN  10 * sim[1] > 8 * sim[2]

\* crypto md5 hex digest: a function of the content alone, taken collision free.
generateHash(content) == <<"md5", content>>

\* ----------------------------------------------------------------- sources
\* this.sources: each source with the topics of its feeds, in iteration order.
sources ==
    << [name |-> "BBC", type |-> "rss",
        urls |-> <<"general", "technology", "business", "politics", "world">>],
       [name |-> "Reuters", type |-> "rss",
        urls |-> <<"general", "world", "technology">>],
       [name |-> "The Guardian", type |-> "api",
        urls |-> <<"politics", "technology", "business", "world">>] >>

mapCategory(category) ==
    CASE category = "tech" -> "technology"
      [] category = "sci" -> "science"
      [] category = "entertainment" -> "entertainment"
      [] category = "sport" -> "sports"
      [] OTHER -> category

\* The position of a feed in the order fetchAllNews visits the feeds.
RECURSIVE FeedsBefore(_)
FeedsBefore(k) == IF k = 0 THEN 0 ELSE FeedsBefore(k - 1) + Len(sources[k].urls)

FeedIndex(name, category) ==
    LET k == CHOOSE j \in DOMAIN sources : sources[j].name = name
        c == CHOOSE j \in DOMAIN sources[k].urls : sources[k].urls[j] = category
    IN  FeedsBefore(k - 1) + c

\* ------------------------------------------------- what the feeds may serve
Pad == Rep("x", 9)
Snippet == Rep("s", 21)

\* A and C: different links, the same concatenation title + link.
\* A and B: the same link, different titles, similarity exactly 0.8.
\* A and D: different links, titles similar above 0.8 once lower-cased.
\* C and D: the same link, different titles.
\* B is published after D, and D after the others.
EntryA == [title |-> Pad \o <<"a", "b">>, link |-> <<"c", "u">>, snippet |-> Snippet, pubDate |-> 1]
EntryB == [title |-> Pad \o <<"c", "d">>, link |-> <<"c", "u">>, snippet |-> Snippet, pubDate |-> 3]
EntryC == [title |-> Pad \o <<"a", "b", "c">>, link |-> <<"u">>, snippet |-> Snippet, pubDate |-> 1]
EntryD == [title |-> <<"X">> \o Rep("x", 8) \o <<"a", "d">>, link |-> <<"u">>, snippet |-> Snippet, pubDate |-> 2]
\* D and E: titles similar above 0.8; A and E: similarity exactly 0.8.
EntryE == [title |-> <<"y">> \o Rep("x", 8) \o <<"a", "d">>, link |-> <<"e">>, snippet |-> Snippet, pubDate |-> 1]
\* The title of A and four more characters: similar to A above 0.8, to C
\* exactly 0.8.
EntryF == [title |-> Pad \o <<"a", "b", "q", "r", "s", "t">>, link |-> <<"f", "u">>, snippet |-> Snippet, pubDate |-> 1]
\* A title of exactly 10 characters.
EntryShort == [title |-> Pad \o <<"e">>, link |-> <<"e">>, snippet |-> Snippet, pubDate |-> 1]

\* The title of A after a space; the link of A.
EntryASpaced == [title |-> <<" ">> \o Pad \o <<"a", "b">>, link |-> <<"c", "u">>, snippet |-> Snippet, pubDate |-> 1]
\* A title of 11 characters of which the first is a space.
EntrySpacedShort == [title |-> <<" ">> \o Pad \o <<"e">>, link |-> <<"g">>, snippet |-> Snippet, pubDate |-> 1]
\* A summary of exactly 20 characters.
EntryBrief == [title |-> Pad \o <<"f", "g">>, link |-> <<"f">>, snippet |-> Rep("s", 20), pubDate |-> 1]

\* The entries each feed may serve in a cycle.
World ==
    { [source |-> "BBC", category |-> "general", entry |-> EntryA],
      [source |-> "BBC", category |-> "technology", entry |-> EntryA],
      [source |-> "BBC", category |-> "general", entry |-> EntryShort],
      [source |-> "Reuters", category |-> "general", entry |-> EntryB],
      [source |-> "Reuters", category |-> "technology", entry |-> EntryD],
      [source |-> "The Guardian", category |-> "politics", entry |-> EntryC] }

\* The same feeds with entries that carry white space or a short summary.
WideWorld ==
    World \cup
    { [source |-> "BBC", category |-> "general", entry |-> EntryASpaced],
      [source |-> "BBC", category |-> "world", entry |-> EntrySpacedShort],
      [source |-> "Reuters", category |-> "world", entry |-> EntryBrief],
      [source |-> "The Guardian", category |-> "technology", entry |-> EntrySpacedShort] }

\* What the feeds serve in one cycle: the entries in the order the feeds are
\* visited (entries of one feed in any order), at most MaxBatch in all, and
\* the feeds whose request fails.
ArrivalsOver(world) ==
    { s \in UNION {[1..n -> world] : n \in 0..MaxBatch} :
        /\ \A i, j \in DOMAIN s : i < j =>
              /\ s[i] # s[j]
              /\ FeedIndex(s[i].source, s[i].category) <= FeedIndex(s[j].source, s[j].category) }

Arrivals == ArrivalsOver(World)

ArrivalFeeds(s) == {<<s[i].source, s[i].category>> : i \in DOMAIN s}

ResponsesOver(world) ==
    UNION { { [arrivals |-> s, failed |-> f] : f \in SUBSET ArrivalFeeds(s) } : s \in ArrivalsOver(world) }

Responses == ResponsesOver(World)

WideResponses == ResponsesOver(WideWorld)

\* ---------------------------------------------------------------- adapters
isValidNewsItem(item) ==
    /\ item.title # <<>>
    /\ item.summary # <<>>
    /\ item.source # ""
    /\ item.url # <<>>
    /\ item.publishedAt # 0
    /\ Len(item.title) > TitleMinLen
    /\ Len(item.summary) > SummaryMinLen

\* feed.items of one feed: the entries that feed serves, in order.
FeedItems(resp, name, category) ==
    LET mine == SelectSeq(resp.arrivals, LAMBDA w : w.source = name /\ w.category = category)
    IN  [i \in DOMAIN mine |-> mine[i].entry]

Take(s, n) == SubSeq(s, 1, IF Len(s) < n THEN Len(s) ELSE n)

\* The newsItem fetchRSSNews builds from a feed entry.
RSSNewsItem(name, category, item) ==
    [ title |-> Trim(item.title),
      summary |-> item.snippet,
      source |-> name,
      url |-> item.link,
      publishedAt |-> item.pubDate,
      category |-> mapCategory(category),
      sourceHash |-> generateHash(item.title \o item.link) ]

\* The newsItem fetchGuardianNews builds from a search result.
GuardianNewsItem(name, category, article) ==
    [ title |-> article.title,
      summary |-> article.snippet,
      source |-> name,
      url |-> article.link,
      publishedAt |-> article.pubDate,
      category |-> mapCategory(category),
      sourceHash |-> generateHash(article.title \o article.link) ]

RECURSIVE Flatten(_)
Flatten(ss) == IF ss = <<>> THEN <<>> ELSE Head(ss) \o Flatten(Tail(ss))

\* One feed of an RSS source: a failed request contributes nothing.
RSSFeedNews(source, category, resp) ==
    IF <<source.name, category>> \in resp.failed THEN <<>>
    ELSE LET items == Take(FeedItems(resp, source.name, category), FeedLimit)
             news == [i \in DOMAIN items |-> RSSNewsItem(source.name, category, items[i])]
         IN  SelectSeq(news, isValidNewsItem)

\* fetchRSSNews without the try around each feed: one failed feed loses the
\* whole source to the catch of fetchAllNews.
fetchRSSNewsWithoutFeedCatch(source, resp) ==
    IF \E c \in DOMAIN source.urls : <<source.name, source.urls[c]>> \in resp.failed
    THEN <<>>
    ELSE Flatten([c \in DOMAIN source.urls |-> RSSFeedNews(source, source.urls[c], resp)])

fetchRSSNews(source, resp) ==
    Flatten([c \in DOMAIN source.urls |-> RSSFeedNews(source, source.urls[c], resp)])

GuardianSectionNews(source, category, resp) ==
    IF <<source.name, category>> \in resp.failed THEN <<>>
    ELSE LET articles == FeedItems(resp, source.name, category)
             news == [i \in DOMAIN articles |-> GuardianNewsItem(source.name, category, articles[i])]
         IN  SelectSeq(news, isValidNewsItem)

\* fetchGuardianNews without the test of source.apiKey.
fetchGuardianNewsWithoutKeyTest(source, resp, apiKey) ==
    Flatten([c \in DOMAIN source.urls |-> GuardianSectionNews(source, source.urls[c], resp)])

fetchGuardianNews(source, resp, apiKey) ==
    IF ~apiKey THEN <<>>
    ELSE Flatten([c \in DOMAIN source.urls |-> GuardianSectionNews(source, source.urls[c], resp)])

\* allNews after the loop over this.sources.
AllNews(resp, apiKey) ==
    Flatten([k \in DOMAIN sources |->
        IF sources[k].type = "rss" THEN fetchRSSNews(sources[k], resp)
        ELSE IF sources[k].type = "api" /\ sources[k].name = "The Guardian"
             THEN fetchGuardianNews(sources[k], resp, apiKey)
             ELSE <<>>])

\* ------------------------------------------------------------------- dedup
\* uniqueByHash.set without the has() test: the last item of each sourceHash,
\* at the position of the first.
RECURSIVE UniqueByHashLastWins(_, _)
UniqueByHashLastWins(newsItems, kept) ==
    IF newsItems = <<>> THEN kept
    ELSE LET item == Head(newsItems)
         IN  IF \E k \in DOMAIN kept : kept[k].sourceHash = item.sourceHash
             THEN UniqueByHashLastWins(Tail(newsItems),
                      [k \in DOMAIN kept |->
                          IF kept[k].sourceHash = item.sourceHash THEN item ELSE kept[k]])
             ELSE UniqueByHashLastWins(Tail(newsItems), Append(kept, item))

\* uniqueByHash: the first item of each sourceHash, in insertion order.
RECURSIVE UniqueByHash(_, _)
UniqueByHash(newsItems, kept) ==
    IF newsItems = <<>> THEN kept
    ELSE LET item == Head(newsItems)
         IN  IF \E k \in DOMAIN kept : kept[k].sourceHash = item.sourceHash
             THEN UniqueByHash(Tail(newsItems), kept)
             ELSE UniqueByHash(Tail(newsItems), Append(kept, item))

uniqueItems(newsItems) == UniqueByHash(newsItems, <<>>)

\* The similarity loop with unshift for push: the newest accepted item first.
RECURSIVE SimilarityFilterUnshift(_, _)
SimilarityFilterUnshift(items, processedItems) ==
    IF items = <<>> THEN processedItems
    ELSE LET item == Head(items)
             isDuplicate == \E k \in DOMAIN processedItems :
                                SimilarTitles(item.title, processedItems[k].title)
         IN  IF isDuplicate
             THEN SimilarityFilterUnshift(Tail(items), processedItems)
             ELSE SimilarityFilterUnshift(Tail(items), <<item>> \o processedItems)

\* The similarity loop: an item is pushed unless some already accepted item
\* has a title more than 0.8 similar.
RECURSIVE SimilarityFilter(_, _)
SimilarityFilter(items, processedItems) ==
    IF items = <<>> THEN processedItems
    ELSE LET item == Head(items)
             isDuplicate == \E k \in DOMAIN processedItems :
                                SimilarTitles(item.title, processedItems[k].title)
         IN  IF isDuplicate
             THEN SimilarityFilter(Tail(items), processedItems)
             ELSE SimilarityFilter(Tail(items), Append(processedItems, item))

processAndDeduplicateNews(newsItems) == SimilarityFilter(uniqueItems(newsItems), <<>>)

\* fetchAllNews up to the call of saveNews: <<allNews, processedNews>>.
FetchOutcome(resp, apiKey) ==
    <<AllNews(resp, apiKey), processAndDeduplicateNews(AllNews(resp, apiKey))>>

\* What one cycle's fetch and dedup can yield, with and without the API key:
\* <<allNews, processedNews>> for every answer of the feeds.
FetchOutcomes ==
    [ apiKey \in BOOLEAN |-> { FetchOutcome(resp, apiKey) : resp \in Responses } ]

\* The same, answer by answer.
OutcomeOf ==
    [apiKey \in BOOLEAN |-> [resp \in Responses |-> FetchOutcome(resp, apiKey)] @@ <<>>] @@ <<>>

\* ------------------------------------------------------------------- state
VARIABLES
    isRunning,       \* NewsScheduler.isRunning
    ticks,           \* firings of the 5-minute cron job so far
    cycles,          \* the executions of fetchAllNews, in the order they started
    store,           \* the News collection: documents in insertion order
    cache,           \* Redis: item keys, category lists, the latest list
    emitted,         \* what broadcastNews has emitted, in order
    faults,          \* store, cache and cycle failures so far
    io,              \* socketHandler's io: the server is initialised
    guardianApiKey,  \* process.env.GUARDIAN_API_KEY is set
    calls,           \* direct calls of the service's methods: an earlier one, the latest
    served,          \* <<>>: the feeds answer anything; <<resp>>: they answer resp
    redisClient,     \* config/redis redisClient is set (connectRedis has run)
    sweeps,          \* the executions of cleanupOldNews, in the order they started
    sockets          \* the socket.io connections, in the order they were made

vars == <<isRunning, ticks, cycles, store, cache, emitted, faults, io, guardianApiKey, calls, served,
          redisClient, sweeps, sockets>>

CycleIds == DOMAIN cycles

\* A cycle is in progress from the call of fetchAllNews until it returns or throws.
InProgress(c) == cycles[c].pc \notin {"done", "failed"}

NewCycle(kind) ==
    [ kind |-> kind, pc |-> "fetch", allNews |-> <<>>, processedNews |-> <<>>,
      i |-> 0, savedNews |-> <<>>, newArticles |-> 0 ]

\* Redis with no key: items are the news:<id> keys, category the
\* news:category:<c> lists, latest the news:latest list, and ttl the lists
\* with a time to live, each named by its category (an item key always has
\* one, set by setEx).
EmptyCache == [items |-> {}, category |-> <<>>, latest |-> <<>>, ttl |-> {}]

\* The server after NewsServer.start: nothing fetched, stored, cached or sent.
Started ==
    /\ isRunning = FALSE
    /\ ticks = 0
    /\ cycles = <<>>
    /\ store = <<>>
    /\ cache = EmptyCache
    /\ emitted = <<>>
    /\ faults = 0
    /\ io = TRUE
    /\ guardianApiKey \in BOOLEAN
    /\ calls = <<>>
    /\ sweeps = <<>>
    /\ sockets = <<>>

\* NewsServer.start has connected Redis before the scheduler and the routes run.
Init ==
    /\ Started
    /\ served = <<>>
    /\ redisClient = TRUE

\* --------------------------------------------------------------- the store
ExistingActive(st, newsData) ==
    \E k \in DOMAIN st :
        /\ st[k].isActive
        /\ st[k].url = newsData.url \/ st[k].sourceHash = newsData.sourceHash

\* An existence check that also matches a stored article of similar title.
ExistingOrSimilar(st, newsData) ==
    \E k \in DOMAIN st :
        \/ st[k].url = newsData.url
        \/ st[k].sourceHash = newsData.sourceHash
        \/ SimilarTitles(st[k].title, newsData.title)

\* News.findOne({ $or: [{ url }, { sourceHash }] }): active or not.
Existing(st, newsData) ==
    \E k \in DOMAIN st :
        st[k].url = newsData.url \/ st[k].sourceHash = newsData.sourceHash

\* new News(newsData): the schema trims title, summary and source, isActive
\* defaults to true, and the document gets a fresh id.
NewsDocument(st, newsData) ==
    [ id |-> Len(st) + 1,
      title |-> Trim(newsData.title),
      summary |-> Trim(newsData.summary),
      source |-> newsData.source,
      url |-> newsData.url,
      publishedAt |-> newsData.publishedAt,
      category |-> newsData.category,
      sourceHash |-> newsData.sourceHash,
      isActive |-> TRUE ]

NoUniqueIndex(st, news) == FALSE

\* The unique index of the schema: url is unique, sourceHash is only indexed.
DuplicateKey(st, news) == \E k \in DOMAIN st : st[k].url = news.url

\* --------------------------------------------------------------- the cache
LPush(list, id) == <<id>> \o list

\* lTrim(key, start, stop), zero based and inclusive.
LTrim(list, start, stop) ==
    SubSeq(list, start + 1, IF Len(list) < stop + 1 THEN Len(list) ELSE stop + 1)

CategoryList(ch, category) ==
    IF category \in DOMAIN ch.category THEN ch.category[category] ELSE <<>>

SetCategoryList(ch, category, list) ==
    [ch EXCEPT !.category =
        [k \in DOMAIN ch.category \cup {category} |->
            IF k = category THEN list ELSE ch.category[k]]]

\* cacheNews with its first n Redis commands done before one fails (n = 5:
\* none fails): setEx item, lPush category, expire category, lPush latest,
\* lTrim latest.
CacheCommands(ch, news, n) ==
    LET c1 == IF n >= 1 THEN [ch EXCEPT !.items = @ \cup {news.id}] ELSE ch
        c2 == IF n >= 2
              THEN SetCategoryList(c1, news.category, LPush(CategoryList(c1, news.category), news.id))
              ELSE c1
        c3 == IF n >= 3 THEN [c2 EXCEPT !.ttl = @ \cup {news.category}] ELSE c2
        c4 == IF n >= 4 THEN [c3 EXCEPT !.latest = LPush(@, news.id)] ELSE c3
        c5 == IF n >= 5 THEN [c4 EXCEPT !.latest = LTrim(@, 0, LatestTrimStop)] ELSE c4
    IN  c5

\* ----------------------------------------------------------- the broadcast
broadcastNewsToAllOnly(newsItems) ==
    IF ~io THEN <<>>
    ELSE <<[event |-> "news:update", room |-> "all", data |-> newsItems,
            count |-> Len(newsItems)]>>

\* broadcastNews: one news:update to everybody, then one news:category_update
\* per item to the room of its category.
broadcastNews(newsItems) ==
    IF ~io THEN <<>>
    ELSE <<[event |-> "news:update", room |-> "all", data |-> newsItems,
            count |-> Len(newsItems)]>>
         \o [k \in DOMAIN newsItems |->
                [event |-> "news:category_update",
                 room |-> <<"category", newsItems[k].category>>,
                 data |-> <<newsItems[k]>>, count |-> 1]]

\* Every emit as a broadcast to all connected sockets.
ReachesEveryone(ev, socket) == socket.connected

\* io.emit reaches every connected socket, io.to(room).emit those that are
\* in the room.
Reaches(ev, socket) ==
    socket.connected /\ (ev.room = "all" \/ ev.room \in socket.rooms)

\* The events are sent in order; each socket receives those that reach it.
Deliver(socks, events) ==
    [s \in DOMAIN socks |->
        [socks[s] EXCEPT !.received =
            @ \o SelectSeq(events, LAMBDA ev : Reaches(ev, socks[s]))]]

SaveNewsBroadcastAlways(savedNews) == broadcastNews(savedNews)

\* saveNews after its loop: broadcast when something was saved.
SaveNewsBroadcast(savedNews) ==
    IF Len(savedNews) > 0 THEN broadcastNews(savedNews) ELSE <<>>

BroadcastProcessed(cyc) ==
    [k \in DOMAIN cyc.processedNews |-> NewsDocument(store, cyc.processedNews[k])]

\* What saveNews hands to broadcastNews: the documents it saved.
BroadcastArgument(cyc) == cyc.savedNews

\* -------------------------------------------------------------- the cycle
MainJobNeverSkips == FALSE

\* The 5-minute job skips when the previous fetch is still running.
MainJobSkips == isRunning

FlagKept(kind, running) == running

\* The finally of the 5-minute job.
FlagAfterCycle(kind, running) == IF kind = "scheduled" THEN FALSE ELSE running

\* fetchAllNews has returned processedNews: its locals are gone, and the admin
\* route answers with newArticles = newNews.length.
Returned(cyc) ==
    [NewCycle(cyc.kind) EXCEPT !.pc = "done",
        !.newArticles = IF cyc.kind = "admin" THEN Len(cyc.processedNews) ELSE 0]

\* The cycle c goes on with the candidate after the one just handled; after
\* the last one saveNews broadcasts and returns, fetchAllNews returns, and the
\* 5-minute job clears its flag.
Continue(c, cyc) ==
    IF cyc.i < Len(cyc.processedNews)
    THEN /\ cycles' = [cycles EXCEPT ![c] = [cyc EXCEPT !.i = @ + 1, !.pc = "findOne"]]
         /\ UNCHANGED <<emitted, isRunning, sockets>>
    ELSE /\ cycles' = [cycles EXCEPT ![c] = Returned(cyc)]
         /\ emitted' = emitted \o SaveNewsBroadcast(BroadcastArgument(cyc))
         /\ sockets' = Deliver(sockets, SaveNewsBroadcast(BroadcastArgument(cyc)))
         /\ isRunning' = FlagAfterCycle(cyc.kind, isRunning)

\* What the fetch and dedup of a cycle starting now can yield.
PossibleOutcomes ==
    IF served = <<>> THEN FetchOutcomes[guardianApiKey]
    ELSE IF served[1] \in Responses THEN {OutcomeOf[guardianApiKey][served[1]]}
    ELSE {FetchOutcome(served[1], guardianApiKey)}

\* How a store or cache operation may end: TRUE it answers, FALSE it fails.
Answers == IF faults < MaxFaults THEN {TRUE, FALSE} ELSE {TRUE}

\* cron.schedule('*/5 * * * *', ...): the job fires.
CronTick ==
    /\ ticks < MaxTicks
    /\ MainJobSkips \/ Len(cycles) < MaxCycles
    /\ ticks' = ticks + 1
    /\ IF MainJobSkips
       THEN UNCHANGED <<isRunning, cycles>>
       ELSE /\ isRunning' = TRUE
            /\ cycles' = Append(cycles, NewCycle("scheduled"))
    /\ UNCHANGED <<store, cache, emitted, faults, io, guardianApiKey, calls, served, redisClient, sweeps, sockets>>

\* setTimeout(() => newsService.fetchAllNews(), 2000): once after start.
InitialFetch ==
    /\ Len(cycles) < MaxCycles
    /\ \A c \in CycleIds : cycles[c].kind # "initial"
    /\ cycles' = Append(cycles, NewCycle("initial"))
    /\ UNCHANGED <<isRunning, ticks, store, cache, emitted, faults, io, guardianApiKey, calls, served, redisClient, sweeps, sockets>>

\* POST /api/admin/trigger-fetch with the admin key.
AdminTriggerFetch ==
    /\ Len(cycles) < MaxCycles
    /\ cycles' = Append(cycles, NewCycle("admin"))
    /\ UNCHANGED <<isRunning, ticks, store, cache, emitted, faults, io, guardianApiKey, calls, served, redisClient, sweeps, sockets>>

\* fetchAllNews up to the call of saveNews: the feeds answer, the valid items
\* are collected and deduplicated.
Fetch(c) ==
    /\ cycles[c].pc = "fetch"
    /\ \E out \in PossibleOutcomes :
          Continue(c, [cycles[c] EXCEPT !.allNews = out[1], !.processedNews = out[2]])
    /\ UNCHANGED <<ticks, store, cache, faults, io, guardianApiKey, calls, served, redisClient, sweeps>>

FetchThrowsWithoutFinally(c) ==
    /\ cycles[c].pc = "fetch"
    /\ cycles' = [cycles EXCEPT ![c] = [NewCycle(cycles[c].kind) EXCEPT !.pc = "failed"]]
    /\ faults < MaxFaults
    /\ faults' = faults + 1
    /\ UNCHANGED <<isRunning, ticks, store, cache, emitted, io, guardianApiKey, calls, served, redisClient, sweeps, sockets>>

\* fetchAllNews rejects: the caller's catch logs, the job's finally runs.
FetchThrows(c) ==
    /\ cycles[c].pc = "fetch"
    /\ cycles' = [cycles EXCEPT ![c] = [NewCycle(cycles[c].kind) EXCEPT !.pc = "failed"]]
    /\ isRunning' = FlagAfterCycle(cycles[c].kind, isRunning)
    /\ faults < MaxFaults
    /\ faults' = faults + 1
    /\ UNCHANGED <<ticks, store, cache, emitted, io, guardianApiKey, calls, served, redisClient, sweeps, sockets>>

\* saveNews without the try around each item: a failed findOne rejects
\* saveNews and with it fetchAllNews.
FindOneWithoutCatch(c) ==
    /\ cycles[c].pc = "findOne"
    /\ \E ok \in Answers :
          /\ faults' = IF ok THEN faults ELSE faults + 1
          /\ IF ~ok
             THEN /\ cycles' = [cycles EXCEPT ![c] = [NewCycle(cycles[c].kind) EXCEPT !.pc = "failed"]]
                  /\ isRunning' = FlagAfterCycle(cycles[c].kind, isRunning)
                  /\ UNCHANGED <<emitted, sockets>>
             ELSE IF ~Existing(store, cycles[c].processedNews[cycles[c].i])
                  THEN /\ cycles' = [cycles EXCEPT ![c].pc = "save"]
                       /\ UNCHANGED <<emitted, isRunning, sockets>>
                  ELSE Continue(c, cycles[c])
    /\ UNCHANGED <<ticks, store, cache, io, guardianApiKey, calls, served, redisClient, sweeps>>

\* saveNews returning the stored article for a candidate that exists already:
\* a found document is pushed to savedNews.
FindOneKeepingExisting(c) ==
    /\ cycles[c].pc = "findOne"
    /\ \E ok \in Answers :
          /\ faults' = IF ok THEN faults ELSE faults + 1
          /\ IF ok /\ ~Existing(store, cycles[c].processedNews[cycles[c].i])
             THEN /\ cycles' = [cycles EXCEPT ![c].pc = "save"]
                  /\ UNCHANGED <<emitted, isRunning, sockets>>
             ELSE IF ~ok THEN Continue(c, cycles[c])
             ELSE LET d == cycles[c].processedNews[cycles[c].i]
                      k == CHOOSE k \in DOMAIN store :
                               store[k].url = d.url \/ store[k].sourceHash = d.sourceHash
                  IN  Continue(c, [cycles[c] EXCEPT !.savedNews = Append(@, store[k])])
    /\ UNCHANGED <<ticks, store, cache, io, guardianApiKey, calls, served, redisClient, sweeps>>

\* saveNews: News.findOne for the current candidate; an error is caught and
\* the loop goes on.
FindOne(c) ==
    /\ cycles[c].pc = "findOne"
    /\ \E ok \in Answers :
          /\ faults' = IF ok THEN faults ELSE faults + 1
          /\ IF ok /\ ~Existing(store, cycles[c].processedNews[cycles[c].i])
             THEN /\ cycles' = [cycles EXCEPT ![c].pc = "save"]
                  /\ UNCHANGED <<emitted, isRunning, sockets>>
             ELSE Continue(c, cycles[c])
    /\ UNCHANGED <<ticks, store, cache, io, guardianApiKey, calls, served, redisClient, sweeps>>

\* saveNews: news.save() for the current candidate; a rejected insert is
\* caught and the loop goes on.
Save(c) ==
    /\ cycles[c].pc = "save"
    /\ LET news == NewsDocument(store, cycles[c].processedNews[cycles[c].i])
       IN  \E ok \in Answers :
              /\ faults' = IF ok THEN faults ELSE faults + 1
              /\ IF ok /\ ~DuplicateKey(store, news)
                 THEN /\ store' = Append(store, news)
                      /\ cycles' = [cycles EXCEPT ![c].pc = "cache",
                                        ![c].savedNews = Append(@, news)]
                      /\ UNCHANGED <<emitted, isRunning, sockets>>
                 ELSE /\ Continue(c, cycles[c])
                      /\ UNCHANGED store
    /\ UNCHANGED <<ticks, cache, io, guardianApiKey, calls, served, redisClient, sweeps>>

\* saveNews with cacheNews awaited before savedNews.push and no catch inside
\* cacheNews: a cache failure leaves the saved document out of savedNews.
CacheNewsBeforePush(c) ==
    /\ cycles[c].pc = "cache"
    /\ LET news == cycles[c].savedNews[Len(cycles[c].savedNews)]
       IN  IF ~redisClient THEN UNCHANGED <<cache, faults>> /\ Continue(c, cycles[c])
           ELSE \E n \in 0..5 :
                   /\ n < 5 => FALSE \in Answers
                   /\ faults' = IF n = 5 THEN faults ELSE faults + 1
                   /\ cache' = CacheCommands(cache, news, n)
                   /\ Continue(c, IF n = 5 THEN cycles[c]
                                  ELSE [cycles[c] EXCEPT !.savedNews = SubSeq(@, 1, Len(@) - 1)])
    /\ UNCHANGED <<ticks, store, io, guardianApiKey, calls, served, redisClient, sweeps>>

\* saveNews: cacheNews(news) for the document just saved; without a client
\* no command is issued, and the errors of the commands are caught inside.
CacheNews(c) ==
    /\ cycles[c].pc = "cache"
    /\ LET news == cycles[c].savedNews[Len(cycles[c].savedNews)]
       IN  IF ~redisClient THEN UNCHANGED <<cache, faults>>
           ELSE \E n \in 0..5 :
                   /\ n < 5 => FALSE \in Answers
                   /\ faults' = IF n = 5 THEN faults ELSE faults + 1
                   /\ cache' = CacheCommands(cache, news, n)
    /\ Continue(c, cycles[c])
    /\ UNCHANGED <<ticks, store, io, guardianApiKey, calls, served, redisClient, sweeps>>

AdminToggleActive(id) ==
    /\ id \in DOMAIN store
    /\ store' = [store EXCEPT ![id].isActive = ~@]
    /\ UNCHANGED <<isRunning, ticks, cycles, cache, emitted, faults, io, guardianApiKey, calls, served, redisClient, sweeps, sockets>>

\* POST /api/admin/news/:id/deactivate.
AdminDeactivate(id) ==
    /\ id \in DOMAIN store
    /\ store[id].isActive
    /\ store' = [store EXCEPT ![id].isActive = FALSE]
    /\ UNCHANGED <<isRunning, ticks, cycles, cache, emitted, faults, io, guardianApiKey, calls, served, redisClient, sweeps, sockets>>

Next ==
    \/ CronTick
    \/ InitialFetch
    \/ AdminTriggerFetch
    \/ \E c \in CycleIds : Fetch(c)
    \/ \E c \in CycleIds : FetchThrows(c)
    \/ \E c \in CycleIds : FindOne(c)
    \/ \E c \in CycleIds : Save(c)
    \/ \E c \in CycleIds : CacheNews(c)
    \/ \E id \in DOMAIN store : AdminDeactivate(id)

Spec == Init /\ [][Next]_vars

\* ------------------------------------------------ the start-up fetch alone
\* The scheduler right after its start: the feeds are known, and the one
\* cycle the start-up timer launches runs alone, before the first firing of
\* the cron job. The scheduler may have been started without connectRedis.
InitStartup ==
    /\ Started
    /\ \E resp \in WideResponses : served = <<resp>>
    /\ redisClient \in BOOLEAN

NextStartup ==
    \/ InitialFetch
    \/ \E c \in CycleIds : Fetch(c)
    \/ \E c \in CycleIds : FetchThrows(c)
    \/ \E c \in CycleIds : FindOne(c)
    \/ \E c \in CycleIds : Save(c)
    \/ \E c \in CycleIds : CacheNews(c)

SpecStartup == InitStartup /\ [][NextStartup]_vars

\* ------------------------------------------------------ the retention sweep
\* Time is counted in days. The feeds date their entries on days 1 to 3; the
\* clean-up job fires once a day, the first time on day FirstSweepDay.
FirstSweepDay == 9

UpdateManyUpToCutoff(st, cutoffDate) ==
    [k \in DOMAIN st |->
        IF st[k].publishedAt <= cutoffDate THEN [st[k] EXCEPT !.isActive = FALSE] ELSE st[k]]

\* updateMany({ publishedAt: { $lt: cutoffDate } }, { isActive: false }).
UpdateManyOlder(st, cutoffDate) ==
    [k \in DOMAIN st |->
        IF st[k].publishedAt < cutoffDate THEN [st[k] EXCEPT !.isActive = FALSE] ELSE st[k]]

\* cron.schedule('0 2 * * *', ...): the job fires and calls cleanupOldNews,
\* which computes cutoffDate and sends updateMany to the database.
CleanupTick ==
    /\ Len(sweeps) < MaxSweeps
    /\ sweeps' = Append(sweeps, [cutoffDate |-> FirstSweepDay + Len(sweeps) - RetentionDays,
                                 pc |-> "updateMany"])
    /\ UNCHANGED <<isRunning, ticks, cycles, store, cache, emitted, faults, io, guardianApiKey,
                   calls, served, redisClient, sockets>>

\* The database applies the updateMany of the sweep s and answers;
\* cleanupOldNews logs the count and returns.
UpdateMany(s) ==
    /\ sweeps[s].pc = "updateMany"
    /\ store' = UpdateManyOlder(store, sweeps[s].cutoffDate)
    /\ sweeps' = [sweeps EXCEPT ![s].pc = "done"]
    /\ UNCHANGED <<isRunning, ticks, cycles, cache, emitted, faults, io, guardianApiKey,
                   calls, served, redisClient, sockets>>

\* The updateMany of the sweep s fails: the catch of cleanupOldNews logs.
UpdateManyFails(s) ==
    /\ sweeps[s].pc = "updateMany"
    /\ faults < MaxFaults
    /\ faults' = faults + 1
    /\ sweeps' = [sweeps EXCEPT ![s].pc = "failed"]
    /\ UNCHANGED <<isRunning, ticks, cycles, store, cache, emitted, io, guardianApiKey,
                   calls, served, redisClient, sockets>>

\* The scheduler with both jobs and the admin's deactivation, on known feeds.
InitRetention ==
    /\ Started
    /\ \E resp \in Responses : served = <<resp>>
    /\ redisClient = TRUE

NextRetention ==
    \/ CronTick
    \/ InitialFetch
    \/ \E c \in CycleIds : Fetch(c)
    \/ \E c \in CycleIds : FindOne(c)
    \/ \E c \in CycleIds : Save(c)
    \/ \E c \in CycleIds : CacheNews(c)
    \/ \E id \in DOMAIN store : AdminDeactivate(id)
    \/ CleanupTick
    \/ \E s \in DOMAIN sweeps : UpdateMany(s)
    \/ \E s \in DOMAIN sweeps : UpdateManyFails(s)

SpecRetention == InitRetention /\ [][NextRetention]_vars

\* ------------------------------------------- the service called directly
\* newsService is an exported object: its methods can be called one by one.
\* calls keeps an earlier call and the latest one; any number of calls may
\* lie between the two.
Recorded(call) == IF Len(calls) < 2 THEN Append(calls, call) ELSE <<calls[1], call>>

\* The earlier call is dropped: the latest one takes its place.
ForgetEarlierCall ==
    /\ Len(calls) = 2
    /\ calls' = <<calls[2]>>
    /\ UNCHANGED <<isRunning, ticks, cycles, store, cache, emitted, faults, io, guardianApiKey, served, redisClient, sweeps, sockets>>

\* The news items a batch handed to processAndDeduplicateNews is made of.
Articles ==
    { RSSNewsItem("BBC", "general", EntryA),
      RSSNewsItem("Reuters", "technology", EntryD),
      RSSNewsItem("BBC", "world", EntryE) }

Batches == UNION {[1..n -> Articles] : n \in 0..MaxItems}

\* News items of which two have the same sourceHash and different titles, and
\* a third a title similar to one of them only.
TwinArticles ==
    { RSSNewsItem("BBC", "general", EntryA),
      RSSNewsItem("BBC", "business", EntryF),
      GuardianNewsItem("The Guardian", "politics", EntryC) }

TwinBatches == UNION {[1..n -> TwinArticles] : n \in 0..MaxItems}

\* processAndDeduplicateNews of every batch.
DedupResults ==
    [newsItems \in Batches \cup TwinBatches |-> processAndDeduplicateNews(newsItems)] @@ <<>>

\* processedItems kept on the service between calls instead of a local.
DedupEngineRemembering(newsItems) ==
    SimilarityFilter(uniqueItems(newsItems),
                     IF calls = <<>> THEN <<>> ELSE calls[Len(calls)].result)

\* newsService.processAndDeduplicateNews(newsItems): uniqueByHash and
\* processedItems are locals, created at every call, so the result is that
\* of the batch alone.
DedupEngine(newsItems) == DedupResults[newsItems]

CallProcessAndDeduplicateNews(newsItems) ==
    /\ calls' = Recorded([op |-> "processAndDeduplicateNews",
                           newsItems |-> newsItems,
                           result |-> DedupEngine(newsItems)])
    /\ UNCHANGED <<isRunning, ticks, cycles, store, cache, emitted, faults, io, guardianApiKey, served, redisClient, sweeps, sockets>>

NextDedup ==
    \/ \E newsItems \in Batches : CallProcessAndDeduplicateNews(newsItems)
    \/ ForgetEarlierCall

SpecDedup == Init /\ [][NextDedup]_vars

\* The same calls on batches with two items of one sourceHash.
NextTwins ==
    \/ \E newsItems \in TwinBatches : CallProcessAndDeduplicateNews(newsItems)
    \/ ForgetEarlierCall

SpecTwins == Init /\ [][NextTwins]_vars

\* ------------------------------------------------------------ the read path
\* lRange(key, start, stop), zero based and inclusive.
LRange(list, start, stop) ==
    SubSeq(list, start + 1, IF Len(list) < stop + 1 THEN Len(list) ELSE stop + 1)

\* JSON.parse of what cacheNews stored under news:<id>: the document as it
\* was saved.
CachedDocument(id) == [store[id] EXCEPT !.isActive = TRUE]

\* sort({ publishedAt: -1 }) over the documents ids: any order in which
\* publishedAt never increases.
SortedByPublishedAt(ids) ==
    { s \in [1..Cardinality(ids) -> ids] :
        /\ \A i, j \in DOMAIN s : i < j =>
              /\ s[i] # s[j]
              /\ store[s[i]].publishedAt >= store[s[j]].publishedAt }

\* find(...).sort({ publishedAt: -1 }).limit(limit).skip(offset).lean() when
\* the filter selects the documents ids: the results the query may give.
FindSorted(ids, limit, offset) ==
    { [k \in 1..((IF Len(s) < offset + limit THEN Len(s) ELSE offset + limit) - offset) |->
          store[s[offset + k]]] :
        s \in SortedByPublishedAt(ids) }

\* News.find({ isActive: true }).sort({ publishedAt: -1 }).limit(limit)
\* .skip(offset).lean(): the results the query may give.
FindActiveLatest(limit, offset) ==
    FindSorted({id \in DOMAIN store : store[id].isActive}, limit, offset)

\* How a call of getLatestNews ends: data returned, or the error of the
\* failed operation thrown again by the catch.
Returns(data) == [failed |-> "none", thrown |-> FALSE, data |-> data]

Throws(operation) == [failed |-> operation, thrown |-> TRUE, data |-> <<>>]

\* getLatestNews(limit, offset): every way the call may end.
getLatestNews(limit, offset) ==
    LET fromStore == {Returns(news) : news \in FindActiveLatest(limit, offset)} \cup {Throws("find")}
        cachedIds == LRange(cache.latest, offset, offset + limit - 1)
        validIds == SelectSeq(cachedIds, LAMBDA id : id \in cache.items)
        validNews == [k \in DOMAIN validIds |-> CachedDocument(validIds[k])]
    IN  IF redisClient
        THEN {Throws("lRange")} \cup
             (IF Len(cachedIds) > 0
              THEN {Throws("get")} \cup
                   (IF Len(validNews) > 0 THEN {Returns(validNews)} ELSE fromStore)
              ELSE fromStore)
        ELSE fromStore

\* newsService.getLatestNews(limit, offset), as GET /api/news/latest calls it.
GetLatestNews(limit, offset) ==
    /\ \E out \in getLatestNews(limit, offset) :
          calls' = <<[op |-> "getLatestNews", limit |-> limit, offset |-> offset,
                      client |-> redisClient, failed |-> out.failed,
                      thrown |-> out.thrown, data |-> out.data]>>
    /\ UNCHANGED <<isRunning, ticks, cycles, store, cache, emitted, faults, io, guardianApiKey,
                   served, redisClient, sweeps, sockets>>

\* The categories of the schema and of the routes' querySchema.
Categories ==
    {"politics", "technology", "business", "sports", "entertainment", "health", "science",
     "world", "general"}

\* getNewsByCategory(category, limit, offset): every way the call may end.
getNewsByCategory(category, limit, offset) ==
    {Returns(news) :
        news \in FindSorted({id \in DOMAIN store :
                                store[id].category = category /\ store[id].isActive},
                            limit, offset)}
    \cup {Throws("find")}

\* newsService.getNewsByCategory(category, limit, offset).
GetNewsByCategory(category, limit, offset) ==
    /\ \E out \in getNewsByCategory(category, limit, offset) :
          calls' = <<[op |-> "getNewsByCategory", category |-> category, limit |-> limit,
                      offset |-> offset, client |-> redisClient, failed |-> out.failed,
                      thrown |-> out.thrown, data |-> out.data]>>
    /\ UNCHANGED <<isRunning, ticks, cycles, store, cache, emitted, faults, io, guardianApiKey,
                   served, redisClient, sweeps, sockets>>

\* new RegExp(query, 'i') throws a SyntaxError on a group that is not closed.
IsPattern(query) == \A j \in DOMAIN query : query[j] # "("

\* searchRegex.test(text) for a pattern of literal characters and dots: with
\* the flag i the pattern is looked for anywhere in text, letters without
\* case, a dot standing for any character.
RegExpTest(query, text) ==
    \E i \in 1..(Len(text) - Len(query) + 1) :
        \A j \in DOMAIN query :
            query[j] = "." \/ LowerChar(query[j]) = LowerChar(text[i + j - 1])

\* searchNews(query, limit, offset): every way the call may end.
searchNews(query, limit, offset) ==
    IF ~IsPattern(query) THEN {Throws("RegExp")}
    ELSE {Returns(news) :
             news \in FindSorted({id \in DOMAIN store :
                                     /\ store[id].isActive
                                     /\ \/ RegExpTest(query, store[id].title)
                                        \/ RegExpTest(query, store[id].summary)},
                                 limit, offset)}
         \cup {Throws("find")}

\* What the clients search for: letters in either case, a dot, a parenthesis.
Queries == { <<"A", "b">>, <<"c", "d">>, <<".", "d">>, <<"(", "a">> }

\* newsService.searchNews(query, limit, offset).
SearchNews(query, limit, offset) ==
    /\ \E out \in searchNews(query, limit, offset) :
          calls' = <<[op |-> "searchNews", query |-> query, limit |-> limit,
                      offset |-> offset, client |-> redisClient, failed |-> out.failed,
                      thrown |-> out.thrown, data |-> out.data]>>
    /\ UNCHANGED <<isRunning, ticks, cycles, store, cache, emitted, faults, io, guardianApiKey,
                   served, redisClient, sweeps, sockets>>

\* Redis removes a news:<id> key whose hour has passed.
ExpireItem(id) ==
    /\ id \in cache.items
    /\ cache' = [cache EXCEPT !.items = @ \ {id}]
    /\ UNCHANGED <<isRunning, ticks, cycles, store, emitted, faults, io, guardianApiKey, calls,
                   served, redisClient, sweeps, sockets>>

\* Redis removes a list with a time to live whose hour has passed.
ExpireList(key) ==
    /\ key \in cache.ttl
    /\ cache' = [cache EXCEPT !.ttl = @ \ {key},
                              !.category = [k \in DOMAIN @ \ {key} |-> @[k]]]
    /\ UNCHANGED <<isRunning, ticks, cycles, store, emitted, faults, io, guardianApiKey, calls,
                   served, redisClient, sweeps, sockets>>

FlushNothing(ch) == ch

\* redis.flushDb(): every key is removed.
FlushDb(ch) == EmptyCache

\* DELETE /api/admin/cache/clear with the admin key, answered 200; without
\* a client the route answers 503 and nothing is cleared.
CacheClear ==
    /\ redisClient
    /\ cache' = FlushDb(cache)
    /\ calls' = <<[op |-> "flushDb"]>>
    /\ UNCHANGED <<isRunning, ticks, cycles, store, emitted, faults, io, guardianApiKey,
                   served, redisClient, sweeps, sockets>>

\* The feeds' answers in which no request fails.
AnsweredResponses == {resp \in Responses : resp.failed = {}}

\* The categories the clients ask for.
Topics == {"general", "technology", "politics"}

\* The service with or without a Redis client: the start-up cycle runs on
\* known feeds that all answer, articles are deactivated, keys expire, the
\* cache is cleared, and the news are queried.
InitReads ==
    /\ Started
    /\ guardianApiKey
    /\ \E resp \in AnsweredResponses : served = <<resp>>
    /\ redisClient \in BOOLEAN

NextReads ==
    \/ InitialFetch
    \/ \E c \in CycleIds : Fetch(c)
    \/ \E c \in CycleIds : FindOne(c)
    \/ \E c \in CycleIds : Save(c)
    \/ \E c \in CycleIds : CacheNews(c)
    \/ \E id \in DOMAIN store : AdminDeactivate(id)
    \/ \E limit \in 1..MaxLimit, offset \in 0..MaxLimit : GetLatestNews(limit, offset)
    \/ \E category \in Topics, limit \in 1..MaxLimit, offset \in 0..MaxLimit :
          GetNewsByCategory(category, limit, offset)
    \/ \E id \in cache.items : ExpireItem(id)
    \/ \E key \in cache.ttl : ExpireList(key)
    \/ CacheClear

SpecReads == InitReads /\ [][NextReads]_vars

\* ---------------------------------------------------------- the news routes
\* routes/news.js: the routes in the order they are registered, each named
\* by its path segment.
Routes == <<"latest", ":category", "search">>

\* Express: a parameter matches any segment, a literal only itself.
RouteMatches(route, segment) == route = ":category" \/ route = segment

\* The first registered route that matches handles the request.
Dispatch(segment) ==
    Routes[CHOOSE k \in DOMAIN Routes :
              /\ RouteMatches(Routes[k], segment)
              /\ \A j \in 1..(k - 1) : ~RouteMatches(Routes[j], segment)]

\* querySchema: limit defaults to 20.
DefaultLimit == 20

\* querySchema on q: absent (the empty string here), or 2 to 100 characters.
ValidQ(q) == q = <<>> \/ (Len(q) >= 2 /\ Len(q) <= 100)

\* res.json({ success: true, data: news, ... }) or res.status(500), by how
\* the service's call ended.
Responded(out) ==
    IF out.thrown THEN [status |-> 500, data |-> <<>>] ELSE [status |-> 200, data |-> out.data]

BadRequest == [status |-> 400, data |-> <<>>]

\* The handler of a route on GET /api/news/<segment>?q=<q>: every response
\* it may give.
Handle(route, segment, q) ==
    CASE route = "latest" ->
            IF ~ValidQ(q) THEN {BadRequest}
            ELSE {Responded(out) : out \in getLatestNews(DefaultLimit, 0)}
      [] route = ":category" ->
            IF ~ValidQ(q) \/ segment \notin Categories THEN {BadRequest}
            ELSE {Responded(out) : out \in getNewsByCategory(segment, DefaultLimit, 0)}
      [] route = "search" ->
            IF ~ValidQ(q) \/ q = <<>> THEN {BadRequest}
            ELSE {Responded(out) : out \in searchNews(q, DefaultLimit, 0)}

\* GET /api/news/<segment>?q=<q>.
HttpGet(segment, q) ==
    /\ \E res \in Handle(Dispatch(segment), segment, q) :
          calls' = <<[op |-> "GET", segment |-> segment, q |-> q, route |-> Dispatch(segment),
                      status |-> res.status, data |-> res.data]>>
    /\ UNCHANGED <<isRunning, ticks, cycles, store, cache, emitted, faults, io, guardianApiKey,
                   served, redisClient, sweeps, sockets>>

\* The service with its routes: the start-up cycle runs on known feeds that
\* all answer, articles are deactivated, and the clients search.
InitSearch ==
    /\ Started
    /\ guardianApiKey
    /\ \E resp \in AnsweredResponses : served = <<resp>>
    /\ redisClient = TRUE

NextSearch ==
    \/ InitialFetch
    \/ \E c \in CycleIds : Fetch(c)
    \/ \E c \in CycleIds : FindOne(c)
    \/ \E c \in CycleIds : Save(c)
    \/ \E c \in CycleIds : CacheNews(c)
    \/ \E id \in DOMAIN store : AdminDeactivate(id)
    \/ \E query \in Queries, limit \in 1..MaxLimit, offset \in 0..MaxLimit :
          SearchNews(query, limit, offset)
    \/ \E segment \in {"latest", "search", "technology"}, q \in Queries \cup {<<>>} :
          HttpGet(segment, q)

SpecSearch == InitSearch /\ [][NextSearch]_vars

\* ------------------------------------------------- cycles that come to an end
\* The next step of the cycle c: the outbound call it awaits returns or fails.
CycleStep(c) ==
    /\ c \in CycleIds
    /\ Fetch(c) \/ FetchThrows(c) \/ FindOne(c) \/ Save(c) \/ CacheNews(c)

\* The scheduler on known feeds that all answer, every trigger included,
\* where every outbound call of a cycle eventually returns or fails.
InitLive ==
    /\ Started
    /\ guardianApiKey
    /\ \E resp \in AnsweredResponses : served = <<resp>>
    /\ redisClient = TRUE

SpecLive ==
    /\ InitLive
    /\ [][Next]_vars
    /\ \A c \in 1..MaxCycles : WF_vars(CycleStep(c))

\* ------------------------------------------------------------ the sockets
\* The most connections made.
MaxSockets == 2

SocketIds == DOMAIN sockets

\* What a client may send with news:subscribe or news:unsubscribe: defined is
\* false when the message has no payload, isArray is Array.isArray of the
\* payload's categories, and categories holds their value, if any.
Payloads ==
    { [defined |-> FALSE, isArray |-> FALSE, categories |-> <<>>],
      [defined |-> TRUE, isArray |-> FALSE, categories |-> <<>>],
      [defined |-> TRUE, isArray |-> FALSE, categories |-> <<"general">>] }
    \cup { [defined |-> TRUE, isArray |-> TRUE, categories |-> cs] :
              cs \in { <<"general">>, <<"technology">> } }

RoomsOf(categories) == {<<"category", categories[k]>> : k \in DOMAIN categories}

\* const { categories } = data throws a TypeError when data is undefined.
DestructuringThrows(data) == ~data.defined

\* The TypeError is thrown out of the listener: nothing catches it and no
\* uncaughtException handler is installed, so the process has ended.
ProcessExited == calls # <<>> /\ "thrown" \in DOMAIN calls[Len(calls)] /\ calls[Len(calls)].thrown

\* io.on('connection'): the socket gets news:connected and is in no topic room.
Connect ==
    /\ io
    /\ Len(sockets) < MaxSockets
    /\ sockets' = Append(sockets,
                     [connected |-> TRUE, rooms |-> {},
                      received |-> <<[event |-> "news:connected", room |-> <<"socket", Len(sockets) + 1>>,
                                      data |-> <<>>, count |-> 0]>>])
    /\ UNCHANGED <<isRunning, ticks, cycles, store, cache, emitted, faults, io, guardianApiKey,
                   calls, served, redisClient, sweeps>>

\* socket.on('disconnect'): the handler logs; socket.io has removed the socket
\* from every room.
Disconnect(s) ==
    /\ sockets[s].connected
    /\ sockets' = [sockets EXCEPT ![s].connected = FALSE, ![s].rooms = {}]
    /\ UNCHANGED <<isRunning, ticks, cycles, store, cache, emitted, faults, io, guardianApiKey,
                   calls, served, redisClient, sweeps>>

\* socket.on('news:subscribe'): join the room of each category of the array.
Subscribe(s, data) ==
    /\ sockets[s].connected
    /\ calls' = <<[op |-> "news:subscribe", socket |-> s, data |-> data,
                   thrown |-> DestructuringThrows(data)]>>
    /\ sockets' = IF ~DestructuringThrows(data) /\ data.isArray
                  THEN [sockets EXCEPT ![s].rooms = @ \cup RoomsOf(data.categories)]
                  ELSE sockets
    /\ UNCHANGED <<isRunning, ticks, cycles, store, cache, emitted, faults, io, guardianApiKey,
                   served, redisClient, sweeps>>

\* socket.on('news:unsubscribe'): leave the room of each category of the array.
Unsubscribe(s, data) ==
    /\ sockets[s].connected
    /\ calls' = <<[op |-> "news:unsubscribe", socket |-> s, data |-> data,
                   thrown |-> DestructuringThrows(data)]>>
    /\ sockets' = IF ~DestructuringThrows(data) /\ data.isArray
                  THEN [sockets EXCEPT ![s].rooms = @ \ RoomsOf(data.categories)]
                  ELSE sockets
    /\ UNCHANGED <<isRunning, ticks, cycles, store, cache, emitted, faults, io, guardianApiKey,
                   served, redisClient, sweeps>>

\* The answer in which Reuters serves B in general and D in technology.
SocketResponses ==
    {resp \in AnsweredResponses :
        /\ Len(resp.arrivals) = 2
        /\ {resp.arrivals[k].entry : k \in DOMAIN resp.arrivals} = {EntryB, EntryD}}

\* The feeds serve one article in each of two topics at every cycle.
InitSockets ==
    /\ Started
    /\ guardianApiKey
    /\ served \in {<<resp>> : resp \in SocketResponses}
    /\ redisClient = TRUE

\* The server with its clients: the start-up cycle, connections and the
\* clients' messages, until the process ends.
NextSockets ==
    /\ ~ProcessExited
    /\ \/ InitialFetch
       \/ \E c \in CycleIds : Fetch(c)
       \/ \E c \in CycleIds : FindOne(c)
       \/ \E c \in CycleIds : Save(c)
       \/ \E c \in CycleIds : CacheNews(c)
       \/ Connect
       \/ \E s \in SocketIds : Disconnect(s)
       \/ \E s \in SocketIds, data \in Payloads : Subscribe(s, data)
       \/ \E s \in SocketIds, data \in Payloads : Unsubscribe(s, data)

SpecSockets == InitSockets /\ [][NextSockets]_vars

\* ================================================================== claims
NumScheduled == Cardinality({c \in CycleIds : cycles[c].kind = "scheduled"})

\* The candidate the cycle c is handling.
Candidate(c) == cycles[c].processedNews[cycles[c].i]

\* A stored article has the url or the sourceHash of the item d.
StoredMatch(d) ==
    \E k \in DOMAIN store : store[k].url = d.url \/ store[k].sourceHash = d.sourceHash

\* The cycle c ends in this step by returning.
Finishes(c) == InProgress(c) /\ cycles'[c].pc = "done"

\* --- C1 ---
\* C1 (as claimed): in every reachable state at most one execution of
\* fetchAllNews is in progress.
C1_NoOverlap == Cardinality({c \in CycleIds : InProgress(c)}) <= 1

\* --- C2 ---
\* C2: a cron firing while isRunning is set starts no cycle and changes nothing
\* but the count of firings; a scheduled cycle starts only in a firing that
\* finds the flag clear, so scheduled cycles never outnumber the firings.
C2_SkippedTriggerDropped ==
    /\ [][(ticks' = ticks + 1 /\ isRunning) =>
            (cycles' = cycles /\ isRunning' /\ UNCHANGED <<store, cache, emitted>>)]_vars
    /\ [][(\E c \in DOMAIN cycles' : c \notin CycleIds /\ cycles'[c].kind = "scheduled") =>
            (ticks' = ticks + 1 /\ ~isRunning /\ isRunning')]_vars
    /\ [](NumScheduled <= ticks)

\* The second firing came while the first scheduled cycle was still running.
C2_Witness ==
    /\ ticks = 2
    /\ NumScheduled = 1
    /\ \E c \in CycleIds : cycles[c].kind = "scheduled" /\ InProgress(c)

\* --- C3 ---
\* C3: isRunning is set only while a scheduled cycle is in progress: once the
\* cycle has returned or thrown the flag is clear.
C3_FlagCleared ==
    isRunning => \E c \in CycleIds : cycles[c].kind = "scheduled" /\ InProgress(c)

\* One scheduled cycle threw, a later one returned, and the flag is clear.
C3_Witness ==
    /\ ~isRunning
    /\ \E c \in CycleIds : cycles[c].kind = "scheduled" /\ cycles[c].pc = "failed"
    /\ \E c \in CycleIds : cycles[c].kind = "scheduled" /\ cycles[c].pc = "done"

\* --- C4 ---
\* C4: no two stored articles, active or not, have the same url.
C4_UrlUnique ==
    \A j, k \in DOMAIN store : j # k => store[j].url # store[k].url

\* A cycle is about to insert a candidate whose url another cycle has stored,
\* under another sourceHash, since this cycle's existence check.
C4_Witness ==
    \E c \in CycleIds :
        /\ cycles[c].pc = "save"
        /\ \E k \in DOMAIN store :
              /\ store[k].url = Candidate(c).url
              /\ store[k].sourceHash # Candidate(c).sourceHash

\* --- C5 ---
\* C5 (as claimed): no two stored articles, active or not, have the same
\* sourceHash.
C5_HashUnique ==
    \A j, k \in DOMAIN store : j # k => store[j].sourceHash # store[k].sourceHash

\* --- C6 ---
\* The cycle c takes a step of its own.
Steps(c) == cycles'[c] # cycles[c]

\* The document d is the stored form of the item x.
DocumentOf(d, x) ==
    /\ d.url = x.url
    /\ d.sourceHash = x.sourceHash
    /\ d.category = x.category
    /\ d.source = x.source

\* The step inserts the current candidate of c and adds it to c's savedNews.
Inserts(c) ==
    /\ cycles[c].pc = "save"
    /\ Len(store') = Len(store) + 1
    /\ SubSeq(store', 1, Len(store)) = store
    /\ DocumentOf(store'[Len(store')], Candidate(c))
    /\ store'[Len(store')].isActive
    /\ cycles'[c].savedNews = Append(cycles[c].savedNews, store'[Len(store')])

\* The position in processedNews of the candidate the document d was made of.
CandidateIndex(c, d) ==
    CHOOSE j \in DOMAIN cycles[c].processedNews :
        cycles[c].processedNews[j].sourceHash = d.sourceHash

\* savedNews of every cycle in progress: documents of the store, made of
\* candidates already handled, in candidate order.
SavedInCandidateOrder ==
    \A c \in CycleIds :
        LET saved == cycles[c].savedNews
        IN  /\ \A k \in DOMAIN saved :
                  /\ saved[k].id \in DOMAIN store
                  /\ DocumentOf(store[saved[k].id], saved[k])
                  /\ \E j \in 1..cycles[c].i : DocumentOf(saved[k], cycles[c].processedNews[j])
            /\ \A k1, k2 \in DOMAIN saved :
                  k1 < k2 => CandidateIndex(c, saved[k1]) < CandidateIndex(c, saved[k2])

CachedIds ==
    cache.items
    \cup {cache.latest[k] : k \in DOMAIN cache.latest}
    \cup UNION {{cache.category[t][k] : k \in DOMAIN cache.category[t]} : t \in DOMAIN cache.category}

\* C7: every cache entry and every article carried by a notification is an
\* article the store holds: nothing is cached or notified before, or without,
\* its insert.
C7_PublishAfterPersist ==
    /\ \A id \in CachedIds : id \in DOMAIN store
    /\ \A n \in DOMAIN emitted : \A k \in DOMAIN emitted[n].data :
          LET d == emitted[n].data[k]
          IN  /\ d.id \in DOMAIN store
              /\ DocumentOf(store[d.id], d)
              /\ store[d.id].title = d.title

\* An article is stored, cached and notified while another cycle's candidate
\* of the same url has been handled without being inserted.
C7_Witness ==
    /\ emitted # <<>>
    /\ cache.latest # <<>>
    /\ \E c \in CycleIds :
          /\ InProgress(c)
          /\ cycles[c].i = 2
          /\ cycles[c].savedNews = <<>>
          /\ cycles[c].processedNews[1].sourceHash \notin {store[k].sourceHash : k \in DOMAIN store}

\* --- C8 ---
\* C8: the step in which a cycle returns with k > 0 saved articles emits one
\* news:update to all carrying those k articles with count k, followed by one
\* news:category_update per article to the room of its category, and no more.
C8_OneBatchAndPerItem ==
    [][\A c \in CycleIds :
          (Finishes(c) /\ cycles[c].savedNews # <<>>) =>
              LET saved == cycles[c].savedNews
                  k == Len(saved)
                  base == Len(emitted)
              IN  /\ Len(emitted') = base + 1 + k
                  /\ SubSeq(emitted', 1, base) = emitted
                  /\ emitted'[base + 1].event = "news:update"
                  /\ emitted'[base + 1].room = "all"
                  /\ emitted'[base + 1].data = saved
                  /\ emitted'[base + 1].count = k
                  /\ \A j \in 1..k :
                        /\ emitted'[base + 1 + j].event = "news:category_update"
                        /\ emitted'[base + 1 + j].room = <<"category", saved[j].category>>
                        /\ emitted'[base + 1 + j].data = <<saved[j]>>]_vars

\* A cycle that saved two articles has broadcast them.
C8_Witness ==
    \E n \in DOMAIN emitted :
        /\ emitted[n].event = "news:update"
        /\ emitted[n].count = 2
        /\ Len(emitted) >= n + 2

\* --- C9 ---
\* C9: the step in which a cycle returns with no saved article emits nothing,
\* and no news:update ever carries an empty batch.
C9_EmptyBatchSilent ==
    /\ [][\A c \in CycleIds :
            (Finishes(c) /\ cycles[c].savedNews = <<>>) => emitted' = emitted]_vars
    /\ [](\A n \in DOMAIN emitted : emitted[n].data # <<>>)

\* Two cycles have returned, one article is stored and only its two
\* notifications were emitted: the other cycle saved nothing and was silent.
C9_Witness ==
    /\ Len(store) = 1
    /\ Len(emitted) = 2
    /\ \E c1, c2 \in CycleIds : c1 # c2 /\ cycles[c1].pc = "done" /\ cycles[c2].pc = "done"

\* --- C10 ---
\* The items of s at the positions in idx, in order.
RECURSIVE ItemsAt(_, _, _)
ItemsAt(s, idx, from) ==
    IF from > Len(s) THEN <<>>
    ELSE IF from \in idx THEN <<s[from]>> \o ItemsAt(s, idx, from + 1)
         ELSE ItemsAt(s, idx, from + 1)

\* The positions of the items that are the first of their sourceHash.
FirstOfKey(s) ==
    {k \in DOMAIN s : \A j \in 1..(k - 1) : s[j].sourceHash # s[k].sourceHash}

\* C10: the exact-key stage keeps, for every sourceHash of the batch, the
\* earliest item carrying it, in arrival order, and drops every later one.
C10_FirstOfKeySurvives ==
    \A c \in CycleIds :
        uniqueItems(cycles[c].allNews) = ItemsAt(cycles[c].allNews, FirstOfKey(cycles[c].allNews), 1)

\* A batch in which two different items carry the same sourceHash.
C10_Witness ==
    \E c \in CycleIds :
        \E j, k \in DOMAIN cycles[c].allNews :
            /\ j < k
            /\ cycles[c].allNews[j].sourceHash = cycles[c].allNews[k].sourceHash
            /\ cycles[c].allNews[j] # cycles[c].allNews[k]

\* --- C11 ---
\* The direct calls of processAndDeduplicateNews that calls holds.
DedupCalls == {k \in DOMAIN calls : calls[k].op = "processAndDeduplicateNews"}

\* The score of the lower-cased titles of x and y, as <<numerator, denominator>>.
TitleScore(x, y) == CompareTwoStrings(ToLowerCase(x.title), ToLowerCase(y.title))

\* The lower-cased titles of x and y are more than 0.8 similar.
NearDuplicates(x, y) == 10 * TitleScore(x, y)[1] > 8 * TitleScore(x, y)[2]

\* The positions of u accepted when u is walked in order and a candidate is
\* rejected exactly when it is a near duplicate of an accepted one.
AcceptedPositions(u) ==
    LET acc[k \in 0..Len(u)] ==
            IF k = 0 THEN {}
            ELSE IF \E j \in acc[k - 1] : NearDuplicates(u[k], u[j])
                 THEN acc[k - 1]
                 ELSE acc[k - 1] \cup {k}
    IN  acc[Len(u)]

\* The survivors of the exact-key stage, in arrival order.
ExactKeySurvivors(batch) == ItemsAt(batch, FirstOfKey(batch), 1)

Reversed(s) == [k \in DOMAIN s |-> s[Len(s) + 1 - k]]

\* C11: the result of processAndDeduplicateNews is the exact-key survivors
\* walked in arrival order, each rejected exactly when its lower-cased title
\* is more than 0.8 similar to that of an item accepted before it (0.8 itself
\* is accepted); of two near duplicates with different keys the first to
\* arrive survives alone, so the reversed batch keeps the other one.
C11_FirstAcceptedWins ==
    /\ \A k \in DedupCalls :
          LET u == ExactKeySurvivors(calls[k].newsItems)
          IN  calls[k].result = ItemsAt(u, AcceptedPositions(u), 1)
    /\ \A k \in DedupCalls :
          LET b == calls[k].newsItems
          IN  (Len(b) = 2 /\ b[1].sourceHash # b[2].sourceHash /\ NearDuplicates(b[1], b[2]))
                  => calls[k].result = <<b[1]>>
    /\ \A j, k \in DedupCalls :
          LET b == calls[j].newsItems
          IN  (/\ Len(b) = 2
               /\ b[1].sourceHash # b[2].sourceHash
               /\ NearDuplicates(b[1], b[2])
               /\ calls[k].newsItems = Reversed(b))
                  => calls[j].result = <<b[1]>> /\ calls[k].result = <<b[2]>>

\* An earlier call got p, q, r with q a near duplicate of p and of r while p
\* and r score exactly 0.8: p and r survived. The latest call got q before p
\* and only q survived.
C11_Witness ==
    /\ Len(calls) = 2
    /\ DedupCalls = {1, 2}
    /\ Len(calls[1].newsItems) = 3
    /\ LET p == calls[1].newsItems[1]
           q == calls[1].newsItems[2]
           r == calls[1].newsItems[3]
       IN  /\ NearDuplicates(p, q)
           /\ NearDuplicates(q, r)
           /\ 10 * TitleScore(p, r)[1] = 8 * TitleScore(p, r)[2]
           /\ Cardinality({p.sourceHash, q.sourceHash, r.sourceHash}) = 3
           /\ calls[1].result = <<p, r>>
           /\ calls[2].newsItems = <<q, p>>
           /\ calls[2].result = <<q>>

\* --- C12 ---
\* s is t with some of its items left out, the others in the order of t.
RECURSIVE IsSubsequence(_, _)
IsSubsequence(s, t) ==
    IF s = <<>> THEN TRUE
    ELSE IF t = <<>> THEN FALSE
    ELSE IF Head(s) = Head(t) THEN IsSubsequence(Tail(s), Tail(t))
    ELSE IsSubsequence(s, Tail(t))

\* C12: the result of processAndDeduplicateNews is a subsequence of the batch
\* in arrival order; no two of its items have the same sourceHash or titles
\* more than 0.8 similar; a non-empty batch gives a non-empty result that
\* starts with the first item of the batch.
C12_NovelSubsequence ==
    \A k \in DedupCalls :
        LET batch == calls[k].newsItems
            out == calls[k].result
        IN  /\ IsSubsequence(out, batch)
            /\ \A i, j \in DOMAIN out :
                  i < j => /\ out[i].sourceHash # out[j].sourceHash
                           /\ ~NearDuplicates(out[i], out[j])
            /\ batch # <<>> => (out # <<>> /\ out[1] = batch[1])

\* A batch of three different items of which the middle one was dropped.
C12_Witness ==
    \E k \in DedupCalls :
        /\ Len(calls[k].newsItems) = 3
        /\ Cardinality({calls[k].newsItems[i] : i \in 1..3}) = 3
        /\ calls[k].result = <<calls[k].newsItems[1], calls[k].newsItems[3]>>

C14_KeyFromTitleAndUrl ==
    \A c \in CycleIds :
        \A i, j \in DOMAIN cycles[c].allNews :
            LET x == cycles[c].allNews[i]
                y == cycles[c].allNews[j]
            IN  (x.title = y.title /\ x.url = y.url) => x.sourceHash = y.sourceHash

\* --- C15 ---
\* The cycle c has fetched and has not returned: its allNews is in sight.
Fetched(c) == InProgress(c) /\ cycles[c].pc # "fetch"

\* The feed of the arrival w answered, and the adapter asked it.
Answered(resp, w) ==
    /\ <<w.source, w.category>> \notin resp.failed
    /\ w.source = "The Guardian" => guardianApiKey

\* The title of the news item made of the arrival w.
ItemTitle(w) == IF w.source = "The Guardian" THEN w.entry.title ELSE Trim(w.entry.title)

\* The news item x is the one made of the arrival w.
ItemOf(x, w) ==
    /\ x.source = w.source
    /\ x.category = w.category
    /\ x.url = w.entry.link
    /\ x.title = ItemTitle(w)
    /\ x.summary = w.entry.snippet

\* Title longer than 10 and summary longer than 20.
LongEnough(title, summary) == Len(title) > TitleMinLen /\ Len(summary) > SummaryMinLen

\* C15 (as claimed): an answered entry is in the batch exactly when its title
\* is longer than 10 and its summary longer than 20 (10 and 20 themselves are
\* rejected, 11 with 21 is accepted), so every item handed to the dedup engine
\* and every stored article has a title longer than 10 and a summary longer
\* than 20.
C15_AdmissionGate ==
    /\ \A c \in CycleIds : Fetched(c) =>
          /\ \A k \in DOMAIN served[1].arrivals :
                LET w == served[1].arrivals[k]
                IN  (\E j \in DOMAIN cycles[c].allNews : ItemOf(cycles[c].allNews[j], w))
                        <=> (Answered(served[1], w) /\ LongEnough(ItemTitle(w), w.entry.snippet))
          /\ \A j \in DOMAIN cycles[c].allNews :
                LongEnough(cycles[c].allNews[j].title, cycles[c].allNews[j].summary)
    /\ \A k \in DOMAIN store : LongEnough(store[k].title, store[k].summary)

\* --- C16 ---
\* The arrivals of the answered feeds that pass the gate, in the order the
\* feeds are visited.
ExpectedArrivals(resp) ==
    SelectSeq(resp.arrivals,
              LAMBDA w : Answered(resp, w) /\ LongEnough(ItemTitle(w), w.entry.snippet))

\* The batch holds the news items of the arrivals ws, one for one, in order.
BatchIs(batch, ws) ==
    /\ Len(batch) = Len(ws)
    /\ \A k \in DOMAIN ws : ItemOf(batch[k], ws[k])

\* After the step some stored article has the url or the sourceHash of d.
StoredMatchAfter(d) ==
    \E k \in DOMAIN store' : store'[k].url = d.url \/ store'[k].sourceHash = d.sourceHash

WithoutSource(resp, name) ==
    [ arrivals |-> SelectSeq(resp.arrivals, LAMBDA w : w.source # name),
      failed |-> {f \in resp.failed : f[1] # name} ]

\* The batch of a cycle to which The Guardian serves nothing.
BatchWithoutGuardian == AllNews(WithoutSource(served[1], "The Guardian"), TRUE)

\* C17: without an API key nothing The Guardian would answer, entry or
\* failure, has any effect: the batch and the candidates of the cycle are
\* those of the other sources alone, the fetch step does not end the cycle in
\* error, and no article of The Guardian is stored or broadcast.
C17_NoApiKeyNoContribution ==
    /\ [](~guardianApiKey =>
            \A c \in CycleIds : Fetched(c) =>
                /\ cycles[c].allNews = BatchWithoutGuardian
                /\ cycles[c].processedNews = processAndDeduplicateNews(BatchWithoutGuardian))
    /\ [](~guardianApiKey =>
            /\ \A k \in DOMAIN store : store[k].source # "The Guardian"
            /\ \A n \in DOMAIN emitted : \A k \in DOMAIN emitted[n].data :
                  emitted[n].data[k].source # "The Guardian")
    /\ [][~guardianApiKey =>
            \A c \in CycleIds :
                (cycles[c].pc = "fetch" /\ Steps(c) /\ faults' = faults) =>
                    /\ cycles'[c].pc \in {"findOne", "done"}
                    /\ cycles'[c].pc = "done" <=> BatchWithoutGuardian = <<>>]_vars

\* No API key; The Guardian would have answered with a valid entry and
\* another source did: the cycle has returned with that other article stored
\* and broadcast.
C17_Witness ==
    /\ ~guardianApiKey
    /\ \E k \in DOMAIN served[1].arrivals :
          LET w == served[1].arrivals[k]
          IN  /\ w.source = "The Guardian"
              /\ <<w.source, w.category>> \notin served[1].failed
              /\ LongEnough(ItemTitle(w), w.entry.snippet)
    /\ cycles # <<>>
    /\ cycles[1].pc = "done"
    /\ Len(store) = 1
    /\ Len(emitted) = 2

\* --- C18 ---
\* The step is the existence check of c's candidate and the check fails, or
\* the insert of c's candidate and the store fails or rejects it.
PersistenceFails(c) ==
    /\ Steps(c)
    /\ \/ cycles[c].pc = "findOne" /\ faults' = faults + 1
       \/ cycles[c].pc = "save" /\ Len(store') = Len(store)

\* The step sends what saveNews sends for the saved documents, and no more.
Publishes(saved) ==
    /\ SubSeq(emitted', 1, Len(emitted)) = emitted
    /\ IF saved = <<>> THEN emitted' = emitted
       ELSE /\ Len(emitted') = Len(emitted) + 1 + Len(saved)
            /\ emitted'[Len(emitted) + 1].data = saved

\* C18: when the existence check or the insert of a candidate fails, nothing
\* is stored or counted as inserted for it and the cycle does not end in
\* error: it goes on with the next candidate, or, after the last one, returns
\* having broadcast the candidates it did insert. No candidate is skipped: a
\* cycle returns only after its last candidate, one candidate at a time.
C18_PersistenceFailureIsolated ==
    /\ [][\A c \in CycleIds :
            PersistenceFails(c) =>
                /\ store' = store
                /\ cycles'[c].pc # "failed"
                /\ IF cycles[c].i < Len(cycles[c].processedNews)
                   THEN /\ cycles'[c].pc = "findOne"
                        /\ cycles'[c].i = cycles[c].i + 1
                        /\ cycles'[c].savedNews = cycles[c].savedNews
                        /\ cycles'[c].processedNews = cycles[c].processedNews
                        /\ emitted' = emitted
                   ELSE /\ Finishes(c)
                        /\ Publishes(cycles[c].savedNews)]_vars
    /\ [][\A c \in CycleIds :
            /\ Finishes(c) => cycles[c].i = Len(cycles[c].processedNews)
            /\ (Fetched(c) /\ ~Finishes(c)) =>
                  /\ cycles'[c].i \in {cycles[c].i, cycles[c].i + 1}
                  /\ cycles'[c].i = cycles[c].i + 1 => cycles'[c].pc = "findOne"]_vars

\* The check or the insert of a cycle's first candidate failed: nothing
\* stored matches it. The cycle has gone on and inserted its second candidate.
C18_Witness ==
    \E c \in CycleIds :
        /\ cycles[c].pc = "cache"
        /\ cycles[c].i = 2
        /\ faults = 1
        /\ ~StoredMatch(cycles[c].processedNews[1])
        /\ Len(cycles[c].savedNews) = 1
        /\ DocumentOf(cycles[c].savedNews[1], cycles[c].processedNews[2])

\* --- C19 ---
\* C19: whatever happens to the cache commands for a document just inserted
\* (all done, some failed, none issued for want of a client), the step leaves the store as it is with
\* the document in it, keeps the document in savedNews, does not end the
\* cycle in error, and goes on with the next candidate or, after the last
\* one, returns with the broadcast of savedNews, the document included.
C19_CacheFailureHarmless ==
    [][\A c \in CycleIds :
          (cycles[c].pc = "cache" /\ Steps(c)) =>
              LET saved == cycles[c].savedNews
                  news == saved[Len(saved)]
              IN  /\ store' = store
                  /\ news.id \in DOMAIN store
                  /\ DocumentOf(store[news.id], news)
                  /\ cycles'[c].pc # "failed"
                  /\ IF cycles[c].i < Len(cycles[c].processedNews)
                     THEN /\ cycles'[c].pc = "findOne"
                          /\ cycles'[c].i = cycles[c].i + 1
                          /\ cycles'[c].savedNews = saved
                          /\ emitted' = emitted
                     ELSE /\ Finishes(c)
                          /\ Publishes(saved)]_vars

\* There is no cache client, or a cache command failed; an article is stored
\* and was broadcast although no item key holds it.
C19_Witness ==
    /\ ~redisClient \/ faults = 1
    /\ \E n \in DOMAIN emitted :
          /\ emitted[n].event = "news:update"
          /\ \E k \in DOMAIN emitted[n].data :
                /\ emitted[n].data[k].id \in DOMAIN store
                /\ emitted[n].data[k].id \notin cache.items

\* --- C20 ---
\* The active stored articles.
ActiveArticles == {store[id] : id \in {k \in DOMAIN store : store[k].isActive}}

\* data is the page (limit, offset) of the articles ordered by publishedAt
\* descending.
IsPageOf(articles, data, limit, offset) ==
    LET n == Cardinality(articles)
        upto == IF n < offset + limit THEN n ELSE offset + limit
    IN  /\ Len(data) = (IF upto < offset THEN 0 ELSE upto - offset)
        /\ \A k \in DOMAIN data :
              /\ data[k] \in articles
              /\ Cardinality({a \in articles : a.publishedAt > data[k].publishedAt})
                    <= offset + k - 1
              /\ Cardinality({a \in articles : a.publishedAt >= data[k].publishedAt})
                    >= offset + k
        /\ \A j, k \in DOMAIN data : j < k => data[j] # data[k]

\* data is the page (limit, offset) of the active stored articles ordered by
\* publishedAt descending.
IsStorePage(data, limit, offset) == IsPageOf(ActiveArticles, data, limit, offset)

\* C20 (as claimed): a call of getLatestNews made without a cache client, or
\* in which a cache read fails, does not fail while the durable store
\* answers: it returns the page (limit, offset) of the active stored articles
\* ordered by publishedAt descending.
C20_CacheReadDegrades ==
    [][(calls' # calls /\ calls' # <<>>) =>
          LET call == calls'[Len(calls')]
          IN  (/\ call.op = "getLatestNews"
               /\ call.failed # "find"
               /\ ~call.client \/ call.failed \in {"lRange", "get"})
                  => (~call.thrown /\ IsStorePage(call.data, call.limit, call.offset))]_vars

\* --- C21 ---
\* This step is the database applying the update of the sweep s.
Swept(s) == sweeps[s].pc = "updateMany" /\ sweeps'[s].pc = "done"

\* The day on which the sweep s runs.
SweepDay(s) == FirstSweepDay + s - 1

\* The fields of a document other than isActive.
OtherFields(d) == [d EXCEPT !.isActive = TRUE]

\* C21: when the update of a sweep run on day t is applied, every stored
\* article published before t - 7 days is inactive afterwards, every other
\* article keeps its active value, no article is removed and no other field
\* changes.
C21_RetentionSweep ==
    [][\A s \in DOMAIN sweeps : Swept(s) =>
          /\ DOMAIN store' = DOMAIN store
          /\ \A k \in DOMAIN store :
                /\ store[k].publishedAt < SweepDay(s) - 7 => ~store'[k].isActive
                /\ store[k].publishedAt >= SweepDay(s) - 7 => store'[k].isActive = store[k].isActive
                /\ OtherFields(store'[k]) = OtherFields(store[k])]_vars

\* The first sweep is done: an article published 8 days before it is
\* inactive, one published 6 days before it is active.
C21_Witness ==
    /\ Len(sweeps) = 1
    /\ sweeps[1].pc = "done"
    /\ \E j, k \in DOMAIN store :
          /\ store[j].publishedAt = SweepDay(1) - 8 /\ ~store[j].isActive
          /\ store[k].publishedAt = SweepDay(1) - 6 /\ store[k].isActive

\* --- C22 ---
\* An execution of cleanupOldNews is in progress from its call until its
\* updateMany has answered or failed.
SweepInProgress(s) == sweeps[s].pc = "updateMany"

\* C22 (as claimed): in every reachable state at most one execution of the
\* sweep is in progress.
C22_SweepsNeverOverlap == Cardinality({s \in DOMAIN sweeps : SweepInProgress(s)}) <= 1

\* --- C23 ---
\* C23: every step keeps the stored articles and all their fields but
\* isActive, which may only go from true to false; and a step that adds an
\* article is the save step of a cycle, inserting the cycle's current
\* candidate, an item of the deduplicated batch of what the cycle fetched.
C23_ArticleLifecycle ==
    [][/\ Len(store') >= Len(store)
       /\ \A k \in DOMAIN store :
             /\ OtherFields(store'[k]) = OtherFields(store[k])
             /\ store'[k].isActive => store[k].isActive
       /\ Len(store') > Len(store) =>
             \E c \in CycleIds :
                /\ Inserts(c)
                /\ cycles[c].processedNews = processAndDeduplicateNews(cycles[c].allNews)]_vars

\* Two cycles have inserted, a sweep has run and an article is inactive.
C23_Witness ==
    /\ Len(store) >= 2
    /\ \E s \in DOMAIN sweeps : sweeps[s].pc = "done"
    /\ \E k \in DOMAIN store : ~store[k].isActive
    /\ \E c \in CycleIds : cycles[c].kind = "scheduled" /\ cycles[c].pc = "done"

\* --- C24 ---
\* The recency lists of the cache.
RecencyLists == {cache.latest} \cup {cache.category[c] : c \in DOMAIN cache.category}

\* C24 (as claimed): while no operation has failed, every recency list holds
\* at most 100 identifiers, and every list that exists has a time to live.
C24_RecencyBounded ==
    faults = 0 =>
        /\ \A list \in RecencyLists : Len(list) <= 100
        /\ \A c \in DOMAIN cache.category : cache.category[c] # <<>> => c \in cache.ttl
        /\ cache.latest # <<>> => "latest" \in cache.ttl

\* --- C25 ---
\* The call this step makes, when it makes one.
Calls(op) == calls' # calls /\ calls' # <<>> /\ calls'[Len(calls')].op = op

TheCall == calls'[Len(calls')]

\* The cached articles of the page (limit, offset) of a recency list.
CachedPage(list, limit, offset) ==
    LET ids == SelectSeq(SubSeq(list, offset + 1,
                                IF Len(list) < offset + limit THEN Len(list) ELSE offset + limit),
                         LAMBDA id : id \in cache.items)
    IN  [k \in DOMAIN ids |-> [store[ids[k]] EXCEPT !.isActive = TRUE]]

\* data is what the read path owes for a recency list and the active stored
\* articles it stands for: the cached page when there is a client and the
\* page is populated, else the page of the durable store.
ServedCacheFirst(list, articles, call) ==
    IF call.client /\ CachedPage(list, call.limit, call.offset) # <<>>
    THEN call.data = CachedPage(list, call.limit, call.offset)
    ELSE IsPageOf(articles, call.data, call.limit, call.offset)

\* C25 (as claimed): a call of getLatestNews or getNewsByCategory that does
\* not fail returns the cached page of its recency list when that is
\* populated, else the page of the active stored articles (of the category)
\* by publishedAt descending.
C25_ReadsPreferCache ==
    [][/\ Calls("getLatestNews") /\ ~TheCall.thrown
            => ServedCacheFirst(cache.latest, ActiveArticles, TheCall)
       /\ Calls("getNewsByCategory") /\ ~TheCall.thrown
            => ServedCacheFirst(CategoryList(cache, TheCall.category),
                                {a \in ActiveArticles : a.category = TheCall.category},
                                TheCall)]_vars

\* --- C26 ---
\* C26 (as claimed): every article a call of getLatestNews, getNewsByCategory
\* or searchNews returns is active in the store at the time of the call.
C26_OnlyActiveReturned ==
    [][\A op \in {"getLatestNews", "getNewsByCategory", "searchNews"} :
          Calls(op) =>
              \A k \in DOMAIN TheCall.data :
                  /\ TheCall.data[k].id \in DOMAIN store
                  /\ store[TheCall.data[k].id].isActive]_vars

\* --- C27 ---
\* The identifiers the cache holds: item keys and list entries.
CachedIdentifiers ==
    cache.items \cup UNION {{list[k] : k \in DOMAIN list} : list \in RecencyLists}

\* This step is the admin's cache clear.
Flushes ==
    /\ calls' = <<[op |-> "flushDb"]>>
    /\ calls' # calls \/ (cache' # cache /\ cache' = EmptyCache)

C28_SearchRouted ==
    [][Calls("GET") /\ TheCall.segment = "search" /\ TheCall.q # <<>> =>
          /\ TheCall.route = "search"
          /\ \/ TheCall.status = 500
             \/ /\ TheCall.status = 200
                /\ Returns(TheCall.data) \in searchNews(TheCall.q, DefaultLimit, 0)]_vars

\* --- C29 ---
\* text contains q as a substring, letters without case.
ContainsIgnoringCase(text, q) ==
    \E i \in 1..(Len(text) - Len(q) + 1) :
        \A j \in DOMAIN q : LowerChar(q[j]) = LowerChar(text[i + j - 1])

\* C29 (as claimed): a call of searchNews in which the store answers returns
\* the page of the active stored articles whose title or summary contains the
\* query, letters without case, by publishedAt descending.
C29_SearchSubstring ==
    [][Calls("searchNews") /\ TheCall.failed # "find" =>
          /\ ~TheCall.thrown
          /\ IsPageOf({a \in ActiveArticles :
                          \/ ContainsIgnoringCase(a.title, TheCall.query)
                          \/ ContainsIgnoringCase(a.summary, TheCall.query)},
                      TheCall.data, TheCall.limit, TheCall.offset)]_vars

\* --- C30 ---
\* This step is a trigger: a firing of the 5-minute job, the start-up timer
\* or the admin's trigger.
Triggers == ticks' # ticks \/ Len(cycles') > Len(cycles)

\* C30: every cycle in progress eventually returns or fails; whenever
\* isRunning is set it is eventually cleared; and a trigger leaves every cycle
\* in progress as it is.
C30_CyclesTerminate ==
    /\ \A c \in 1..MaxCycles :
          (c \in CycleIds /\ InProgress(c)) ~> (c \in CycleIds /\ ~InProgress(c))
    /\ isRunning ~> ~isRunning
    /\ [][Triggers => \A c \in CycleIds : cycles'[c] = cycles[c]]_vars

\* A scheduled cycle has returned after a firing that found it in progress,
\* the flag is cleared, and the start-up cycle has ended too.
C30_Witness ==
    /\ ~isRunning
    /\ ticks = MaxTicks
    /\ Len(cycles) = MaxCycles
    /\ \E c \in CycleIds : cycles[c].kind = "scheduled" /\ cycles[c].pc = "done"
    /\ \A c \in CycleIds : ~InProgress(c)
    /\ Len(store) >= 1

\* --- C35 ---
\* C35 (as claimed): the list fetchAllNews returns is the list of the articles
\* the cycle newly persisted, so the newArticles count of the admin trigger's
\* response is the number of articles that cycle inserted.
C35_ReturnedIsPersisted ==
    [][\A c \in CycleIds :
          (Finishes(c) /\ cycles[c].kind = "admin") =>
              cycles'[c].newArticles = Len(cycles[c].savedNews)]_vars

\* --- C32 ---
\* A stored article has a title more than 0.8 similar to that of the item d.
SimilarStored(d) == \E k \in DOMAIN store : NearDuplicates(store[k], d)

\* The documents in saved are carried by a news:update emitted in this step.
CarriedNow(saved) ==
    \A k \in DOMAIN saved :
        \E n \in (Len(emitted) + 1)..Len(emitted') :
            /\ emitted'[n].event = "news:update"
            /\ \E j \in DOMAIN emitted'[n].data : emitted'[n].data[j] = saved[k]

Carrying(event, id) ==
    {n \in DOMAIN emitted :
        /\ emitted[n].event = event
        /\ \E j \in DOMAIN emitted[n].data : emitted[n].data[j].id = id}

\* Every candidate of the cycle c has its url or sourceHash in the store.
AllStored(c) ==
    \A k \in DOMAIN cycles[c].processedNews : StoredMatch(cycles[c].processedNews[k])

\* C33: a stored article is carried by at most one news:update and at most one
\* news:category_update; and a cycle that has saved nothing and whose
\* candidates are all stored already goes through its existence checks
\* without changing the store, the cache or what was emitted, and without
\* reaching an insert.
C33_NotifiedAtMostOnce ==
    /\ [](\A id \in DOMAIN store :
             /\ Cardinality(Carrying("news:update", id)) <= 1
             /\ Cardinality(Carrying("news:category_update", id)) <= 1)
    /\ [][\A c \in CycleIds :
            ( /\ Steps(c) /\ cycles[c].pc = "findOne"
              /\ cycles[c].savedNews = <<>> /\ AllStored(c) ) =>
                /\ UNCHANGED <<store, cache, emitted>>
                /\ cycles'[c].savedNews = <<>>
                /\ cycles'[c].pc # "save"]_vars

\* The start-up cycle has stored and notified two articles; a later cycle
\* brought the same two, is at the check of the second with nothing saved,
\* and each article is still carried by one notification of each kind.
C33_Witness ==
    /\ Len(store) = 2
    /\ Len(emitted) = 3
    /\ \A id \in DOMAIN store :
          /\ Cardinality(Carrying("news:update", id)) = 1
          /\ Cardinality(Carrying("news:category_update", id)) = 1
    /\ \E c1, c2 \in CycleIds :
          /\ cycles[c1].pc = "done"
          /\ cycles[c2].pc = "findOne"
          /\ cycles[c2].i = 2
          /\ cycles[c2].savedNews = <<>>
          /\ Len(cycles[c2].processedNews) = 2
          /\ AllStored(c2)

\* --- C34 ---
\* The positions of newsItems whose item is in the result as the first of its
\* sourceHash: the survivors of the call.
SurvivorPositions(call) ==
    {q \in FirstOfKey(call.newsItems) :
        \E k \in DOMAIN call.result : call.result[k] = call.newsItems[q]}

\* C34 (as claimed): every item processAndDeduplicateNews drops has, earlier
\* in arrival order, a surviving item with the same sourceHash or with a
\* title more than 0.8 similar to its own.
C34_DroppedRedundantWithSurvivor ==
    \A n \in DedupCalls :
        LET call == calls[n]
        IN  \A p \in DOMAIN call.newsItems :
                p \notin SurvivorPositions(call) =>
                    \E q \in SurvivorPositions(call) :
                        /\ q < p
                        /\ \/ call.newsItems[q].sourceHash = call.newsItems[p].sourceHash
                           \/ NearDuplicates(call.newsItems[p], call.newsItems[q])

\* --- C31 ---
\* The socket s is a member of the topic now.
Member(s, topic) == sockets[s].connected /\ <<"category", topic>> \in sockets[s].rooms

\* The step handles a message of the socket s.
Sends(s) == calls' # calls /\ calls'[1].socket = s

\* The per-item notifications of the article id that the socket s has received.
PerItemReceived(s, id) ==
    {k \in DOMAIN sockets[s].received :
        /\ sockets[s].received[k].event = "news:category_update"
        /\ sockets[s].received[k].data[1].id = id}

\* C31: in a step that emits, a socket receives the per-item notification of
\* an article once when it is a member of the article's topic and not at all
\* otherwise, and receives no other per-item notification; in any other step
\* nothing is received, and a new socket has received only news:connected.
\* Membership follows the messages: a subscribe with an array adds its
\* topics, an unsubscribe with an array removes them, a disconnect removes
\* all, and nothing else changes it. No socket ever holds two per-item
\* notifications of one article.
C31_DeliveryFollowsMembership ==
    /\ [][emitted' # emitted =>
            \A s \in SocketIds :
                LET new == SubSeq(emitted', Len(emitted) + 1, Len(emitted'))
                    old == sockets[s].received
                    got == SubSeq(sockets'[s].received, Len(old) + 1, Len(sockets'[s].received))
                IN  /\ SubSeq(sockets'[s].received, 1, Len(old)) = old
                    /\ \A n \in DOMAIN new :
                          new[n].event = "news:category_update" =>
                              Cardinality({k \in DOMAIN got : got[k] = new[n]})
                                  = IF Member(s, new[n].data[1].category) THEN 1 ELSE 0
                    /\ \A k \in DOMAIN got :
                          got[k].event = "news:category_update" =>
                              \E n \in DOMAIN new : new[n] = got[k]]_vars
    /\ [][emitted' = emitted =>
            /\ \A s \in SocketIds : sockets'[s].received = sockets[s].received
            /\ \A s \in DOMAIN sockets' \ SocketIds :
                  /\ sockets'[s].rooms = {}
                  /\ \A k \in DOMAIN sockets'[s].received :
                        sockets'[s].received[k].event = "news:connected"]_vars
    /\ [][\A s \in SocketIds :
            sockets'[s].rooms =
                IF Sends(s) /\ calls'[1].data.isArray
                THEN IF calls'[1].op = "news:subscribe"
                     THEN sockets[s].rooms \cup RoomsOf(calls'[1].data.categories)
                     ELSE sockets[s].rooms \ RoomsOf(calls'[1].data.categories)
                ELSE IF sockets[s].connected /\ ~sockets'[s].connected THEN {}
                ELSE sockets[s].rooms]_vars
    /\ [](\A s \in SocketIds : \A id \in DOMAIN store :
             Cardinality(PerItemReceived(s, id)) <= 1)

\* Two articles of different topics were stored and notified. One socket got
\* the notification of the general one alone; the other, connected, subscribed
\* to general in the latest message, after the emission, and has none.
C31_Witness ==
    /\ Len(store) = 2
    /\ Len(emitted) = 3
    /\ \E s1, s2 \in SocketIds :
          /\ s1 # s2
          /\ \E id \in DOMAIN store :
                /\ store[id].category = "general"
                /\ Cardinality(PerItemReceived(s1, id)) = 1
                /\ \A other \in DOMAIN store \ {id} : PerItemReceived(s1, other) = {}
                /\ Member(s2, "general")
                /\ \A any \in DOMAIN store : PerItemReceived(s2, any) = {}
          /\ calls # <<>>
          /\ calls[1].socket = s2
          /\ calls[1].op = "news:subscribe"

\* --- C36 ---
\* C36 (as claimed): a news:subscribe or news:unsubscribe whose payload is
\* missing, or whose categories is not an array, changes no socket's
\* membership and raises no error in the server.
C36_MalformedMessageIgnored ==
    [][\A s \in SocketIds :
          (Sends(s) /\ ~calls'[1].data.isArray) =>
              /\ \A t \in SocketIds : sockets'[t].rooms = sockets[t].rooms
              /\ ~calls'[1].thrown
              /\ ~ProcessExited']_vars

====
